---------------------------- MODULE Spec2Model ----------------------------
(***************************************************************************)
(* A model of the feed update engine of staticrss.py (willie module):      *)
(* Feed.update, Feed.load / Feed.save, Feed.msg, the scheduler             *)
(* update_feeds, shutdown, and the process being restarted or killed       *)
(* inside a save; and of the Pipe thread of pipe.py with its socket and    *)
(* buffer file.  Text is modelled as sequences of one-character strings    *)
(* so that strip(), rstrip(), the line format of the state file and the    *)
(* decimal rendering of old_time are computed, not assumed.                *)
(*                                                                         *)
(* An optional value (a Python attribute that may be None or absent) is a  *)
(* sequence of length 0 (None) or 1 (<<v>>).                               *)
(***************************************************************************)
EXTENDS Integers, Sequences, FiniteSets, TLC

VARIABLES
    feeds,      \* data.feeds: feeds[i + 1] is the Feed object data.feeds[i]
    files,      \* files[i + 1]: that feed's state file on disk (optional text)
    next,       \* data.next, the rotation cursor
    lock,       \* data.lock: "free" or the name of its holder
    tick,       \* the position of a running update_feeds call and its log
    last,       \* what the non-skipped update of the current tick did
    prev,       \* prev[i + 1]: the snapshot feed i received before last, with validators
    config,     \* bot.config: the section each feed is set up from
    flush,      \* the position of a running shutdown call
    saved,      \* saved[i + 1]: the snapshot feed i had recorded when the process restarted
    crash,      \* the save a crash interrupted: the file before, the text being written
    told,       \* told[i + 1]: the identifiers feed i announced before this tick
    since,      \* since[i + 1]: the traversals that ended since feed i was last visited
    pipe        \* pipe.py: the Pipe object, its thread, its socket and its buffer file

vars ==
    <<feeds, files, next, lock, tick, last, prev, config, flush, saved, crash,
      told, since, pipe>>

\* what only a restart, a shutdown, a crash, a specification that keeps a
\* history or the pipe module changes
life == <<config, flush, saved, crash, told, since, pipe>>

\* the state of staticrss.py, which pipe.py never touches
rss ==
    <<feeds, files, next, lock, tick, last, prev, config, flush, saved, crash,
      told, since>>

-----------------------------------------------------------------------------
(* Bounds of the model. *)

\* longest list of entries a fetched snapshot holds
MaxEntries == 2

\* consecutive failed fetches explored per feed
MaxFails == 3

\* a feed with interval 0 never reduces its age: it is followed up to this age
MaxAge == 90

-----------------------------------------------------------------------------
(* Program constants. *)

\* INTERVAL: seconds between two calls of update_feeds
INTERVAL == 30

\* MAX_LINE_LENGTH: the budget of one announcement line
MAX_LINE_LENGTH == 390

None == <<>>

Some(v) == <<v>>

-----------------------------------------------------------------------------
(* Text helpers: str.strip, str.rstrip, str.replace, unicode(), float(). *)

NL == "\n"

IsSpace(c) == c \in {" ", NL}

RECURSIVE LStrip(_)
LStrip(s) == IF s # <<>> /\ IsSpace(Head(s)) THEN LStrip(Tail(s)) ELSE s

RECURSIVE RStrip(_)
RStrip(s) ==
    IF s # <<>> /\ IsSpace(s[Len(s)]) THEN RStrip(SubSeq(s, 1, Len(s) - 1)) ELSE s

Strip(s) == LStrip(RStrip(s))

ReplaceNL(s) == [k \in 1..Len(s) |-> IF s[k] = NL THEN " " ELSE s[k]]

DigitChars == <<"0", "1", "2", "3", "4", "5", "6", "7", "8", "9">>

RECURSIVE Digits(_)
Digits(n) ==
    IF n < 10 THEN <<DigitChars[n + 1]>>
    ELSE Digits(n \div 10) \o <<DigitChars[(n % 10) + 1]>>

\* unicode(self.old_time): old_time is the int 0 until a published time (a
\* float with no fraction, from time.mktime) has been recorded.
UnicodeTime(t) == IF t = 0 THEN <<"0">> ELSE Digits(t) \o <<".", "0">>

DigitValue(c) == (CHOOSE d \in 1..10 : DigitChars[d] = c) - 1

IsDigit(c) == \E d \in 1..10 : DigitChars[d] = c

RECURSIVE IntPrefix(_, _)
IntPrefix(s, acc) ==
    IF s # <<>> /\ IsDigit(Head(s))
    THEN IntPrefix(Tail(s), acc * 10 + DigitValue(Head(s)))
    ELSE acc

\* float(line) for the lines save() writes: digits, optionally followed by
\* a fraction of zeros.
ParseFloat(line) == IntPrefix(line, 0)

\* iteration over the lines of a text file: each line ends after its "\n"
RECURSIVE SplitLines(_, _)
SplitLines(text, cur) ==
    IF text = <<>> THEN (IF cur = <<>> THEN <<>> ELSE <<cur>>)
    ELSE IF Head(text) = NL THEN <<cur \o <<NL>>>> \o SplitLines(Tail(text), <<>>)
    ELSE SplitLines(Tail(text), cur \o <<Head(text)>>)

\* the order in which a Python set is iterated: arbitrary, fixed here
RECURSIVE SetOrder(_)
SetOrder(S) ==
    IF S = {} THEN <<>>
    ELSE LET x == CHOOSE y \in S : TRUE IN <<x>> \o SetOrder(S \ {x})

\* Max giving the second value whatever the first
MaxOfNew(a, b) == b

Max(a, b) == IF a >= b THEN a ELSE b


-----------------------------------------------------------------------------
(* Feed: construction, configuration, state file. *)

\* Feed.__init__ (rewrite rules and debug level stay at their defaults)
NewFeed ==
    [url |-> None, interval |-> 0, age |-> 0, soup |-> FALSE, max_items |-> 5,
     enable |-> Some(<<>>), exclude |-> {}, old_items |-> None, old_time |-> 0,
     backoff |-> 0, etag |-> None, modified |-> None]

\* Feed.parse_config: a section gives url, interval (minutes), soup,
\* enable, exclude and max_items, each optional
ParseConfig(f, section) ==
    LET f1 == IF section.url # None THEN [f EXCEPT !.url = section.url] ELSE f
        f2 == IF section.interval # None
              THEN [f1 EXCEPT !.interval = section.interval[1] * 60,
                              !.age = section.interval[1] * 60 + 1]
              ELSE f1
        f3 == [f2 EXCEPT !.soup = section.soup]
        f4 == IF section.exclude # {} THEN [f3 EXCEPT !.exclude = section.exclude] ELSE f3
        f5 == IF section.enable # <<>> THEN [f4 EXCEPT !.enable = Some(section.enable)] ELSE f4
    IN  IF section.max_items # None THEN [f5 EXCEPT !.max_items = section.max_items[1]] ELSE f5

\* the loop of Feed.load over the lines of the state file
RECURSIVE LoadLines(_, _, _, _)
LoadLines(lines, first, time, items) ==
    IF lines = <<>> THEN [first |-> first, old_time |-> time, old_items |-> items]
    ELSE LET line == RStrip(Head(lines)) IN
         IF line = <<>> THEN LoadLines(Tail(lines), first, time, items)
         ELSE IF first THEN LoadLines(Tail(lines), FALSE, ParseFloat(line), items)
         ELSE LoadLines(Tail(lines), first, time, items \cup {line})

\* Feed.load: file is the optional content of the state file
Load(f, file) ==
    IF file = None THEN f
    ELSE LET r == LoadLines(SplitLines(file[1], <<>>), TRUE, f.old_time, {}) IN
         IF r.first THEN [f EXCEPT !.old_time = r.old_time]
         ELSE [f EXCEPT !.old_time = r.old_time, !.old_items = Some(r.old_items)]

\* the text Feed.save writes: the time, then one line per identifier
RECURSIVE WriteLines(_)
WriteLines(guids) ==
    IF guids = <<>> THEN <<>> ELSE Head(guids) \o <<NL>> \o WriteLines(Tail(guids))

SaveText(f) == UnicodeTime(f.old_time) \o <<NL>> \o WriteLines(SetOrder(f.old_items[1]))

\* Feed.save: the state file afterwards
Save(f, file) == IF f.old_items # None THEN Some(SaveText(f)) ELSE file

\* Disable without the tenth of the backoff
DisableFlat(f) == [f EXCEPT !.backoff = f.backoff + f.interval]

\* Feed.disable; interval and backoff are ints, so / truncates
Disable(f) == [f EXCEPT !.backoff = f.backoff + f.interval + (f.backoff \div 10)]

-----------------------------------------------------------------------------
(* Notifications. *)

\* bot.privileges: the channels the bot has joined, in iteration order
Privileges == << <<"#", "a">>, <<"#", "b">> >>

\* the loop of Feed.msg from its k-th channel on: the deliveries made
RECURSIVE MsgFrom(_, _, _, _)
MsgFrom(f, channels, k, message) ==
    IF k > Len(channels) THEN <<>>
    ELSE LET channel == channels[k] IN
         IF channel = <<>> \/ channel[1] # "#" THEN <<>>
         ELSE IF channel \in f.exclude THEN <<>>
         ELSE <<[chan |-> channel, text |-> message]>>
                  \o MsgFrom(f, channels, k + 1, message)

\* Feed.msg: the sequence of bot.msg(channel, message) calls it makes
Msg(f, message) ==
    LET channels == IF f.enable # None THEN f.enable[1] ELSE Privileges
    IN  MsgFrom(f, channels, 1, message)

\* Feed.new_item: the messages handed to Feed.msg (none when title and link
\* are both empty)
NewItem(f, item) ==
    LET title0 == IF item.title # None THEN item.title[1] ELSE <<>>
        link   == IF item.link = None THEN <<>>
                  ELSE IF item.link[1] # <<>> /\ title0 # <<>>
                       THEN <<" ", "-", " ">> \o item.link[1]
                       ELSE item.link[1]
        max_length == MAX_LINE_LENGTH - Len(link)
        title  == IF title0 # <<>> /\ Len(title0) > max_length
                  THEN SubSeq(title0, 1, max_length - 2) \o <<" ", "...">>
                  ELSE title0
        message == title \o link
    IN  IF message # <<>> THEN <<message>> ELSE <<>>

\* Feed.guid
Guid(item) ==
    IF item.guid # None THEN ReplaceNL(Strip(item.guid[1]))
    ELSE LET g0 == IF item.title # None THEN item.title[1] ELSE <<>>
             g1 == IF item.link # None THEN item.link[1] ELSE g0
             g2 == IF item.published # None THEN g1 \o <<"#">> \o item.published[1] ELSE g1
         IN  ReplaceNL(Strip(g2))


-----------------------------------------------------------------------------
(* Feed.update.  What the remote end answers is the record resp:           *)
(*   kind     "fail" (the fetch raises: transport error, malformed feed,   *)
(*            HTTP 410 or another error status) or "ok"                    *)
(*   status   the HTTP status of an "ok" answer: 200, 301 or 304           *)
(*   href     the address a 301 answer redirects to                        *)
(*   entries  the items of the snapshot, in feed order                     *)
(*   etag, modified   the cache validators sent with it (optional)         *)

\* an entry as update_soup builds it: title, link and published text only
SoupEntry(item) == [item EXCEPT !.guid = None, !.time = None]

\* Feed.update_soup for an answer that does not raise: None for 304 / 301,
\* else the parsed page, which carries no status attribute
UpdateSoup(f, resp) ==
    IF resp.status = 304 \/ resp.status = 301 THEN None
    ELSE Some([resp EXCEPT !.status = 200, !.href = None,
                           !.entries = [k \in 1..Len(resp.entries) |->
                                            SoupEntry(resp.entries[k])]])

\* Feed.update_feed for an answer that does not raise (remote url)
UpdateFeed(f, resp) == Some(resp)

\* time.mktime(item.published_parsed)
Mktime(t) == t

\* IsOld with < for <=
IsOldStrict(f, new_time) == new_time < f.old_time

\* line 384: the item's published time is not newer than old_time
IsOld(f, new_time) == new_time <= f.old_time

\* ResetBackoff left out
KeepBackoff(f) == f

\* line 345
ResetBackoff(f) == [f EXCEPT !.backoff = 0]

\* lines 359-367: a validator is present and equal to the stored one
SameValidator(new, stored) == new # None /\ new = stored

\* IsKnown finding no identifier known
IsKnownNever(f, guid) == FALSE

\* line 379: the identifier is a known one
IsKnown(f, guid) == guid \in f.old_items[1]

\* lines 377-391: the loop over reversed(fp.entries) from position k down;
\* announced are the positions given to new_item, treated those that
\* reached line 388 (announced or counted)
RECURSIVE Walk(_, _, _, _, _, _, _)
Walk(f, entries, k, skipped, new_items, treated, announced) ==
    IF k = 0
    THEN [skipped |-> skipped, new_items |-> new_items, treated |-> treated,
          announced |-> announced]
    ELSE IF IsKnown(f, Guid(entries[k]))
    THEN Walk(f, entries, k - 1, skipped, new_items, treated, announced)
    ELSE IF entries[k].time # None /\ IsOld(f, Mktime(entries[k].time[1]))
    THEN Walk(f, entries, k - 1, skipped, TRUE, treated, announced)
    ELSE Walk(f, entries, k - 1, skipped + 1, TRUE, Append(treated, k),
              IF skipped < 0 THEN Append(announced, k) ELSE announced)

\* Summary with the plural text for one item too
SummaryPlural(skipped) ==
    IF skipped > 0 THEN << <<"(and ">> \o Digits(skipped) \o <<" more items)">> >>
    ELSE <<>>

\* lines 392-395: the summary handed to Feed.msg after the loop
Summary(skipped) ==
    IF skipped = 1 THEN << <<"(and one more item)">> >>
    ELSE IF skipped > 0 THEN << <<"(and ">> \o Digits(skipped) \o <<" more items)">> >>
    ELSE <<>>

\* the messages handed to Feed.msg by the new_item calls of the loop
RECURSIVE Announce(_, _, _)
Announce(f, entries, announced) ==
    IF announced = <<>> THEN <<>>
    ELSE NewItem(f, entries[Head(announced)]) \o Announce(f, entries, Tail(announced))

\* lines 375-395 once the loop has run with result w
Walked(f, entries, w) ==
    [new_items |-> w.new_items, treated |-> w.treated,
     sent |-> Announce(f, entries, w.announced) \o Summary(w.skipped)]

\* line 375: the loop runs over the entries
ChecksItems(f, entries) == entries # <<>> /\ f.old_items # None

\* lines 374-395: the check for new items
CheckItems(f, entries) ==
    IF ChecksItems(f, entries)
    THEN Walked(f, entries,
                Walk(f, entries, Len(entries), 0 - f.max_items, f.old_items = None,
                     <<>>, <<>>))
    ELSE [new_items |-> (f.old_items = None), treated |-> <<>>, sent |-> <<>>]

\* KnownAfter with the loop missing the first entry
KnownAfterButFirst(entries) == {Guid(entries[k]) : k \in 2..Len(entries)}

\* lines 399-401: the identifiers of the snapshot
KnownAfter(entries) == {Guid(entries[k]) : k \in 1..Len(entries)}

\* SeenTime taking the newest of all entries instead of the first entry
SeenTimeOfAll(f, entries) ==
    IF \E k \in 1..Len(entries) : entries[k].time # None
    THEN Max(f.old_time,
             CHOOSE t \in {Mktime(entries[k].time[1]) :
                              k \in {j \in 1..Len(entries) : entries[j].time # None}} :
                 \A k \in 1..Len(entries) :
                     entries[k].time # None => Mktime(entries[k].time[1]) <= t)
    ELSE f.old_time

\* lines 402-403: old_time after the snapshot has been recorded
SeenTime(f, entries) ==
    IF entries # <<>> /\ entries[1].time # None
    THEN Max(f.old_time, Mktime(entries[1].time[1]))
    ELSE f.old_time

\* the calls bot.msg(channel, text) made for the messages sent
RECURSIVE Deliver(_, _)
Deliver(f, sent) ==
    IF sent = <<>> THEN <<>> ELSE Msg(f, Head(sent)) \o Deliver(f, Tail(sent))

\* what one call of Feed.update leaves behind and reports: the feed and its
\* state file, the outcome, whether a fetch was attempted, the snapshot the
\* fetch returned (optional), the messages given to Feed.msg, the positions
\* of the entries treated as new, whether the state file was written
Outcome(f, file, outcome, fetched, snapshot, sent, treated, wrote) ==
    [feed |-> f, file |-> file, outcome |-> outcome, fetched |-> fetched,
     snapshot |-> snapshot, sent |-> sent, treated |-> treated, wrote |-> wrote,
     delivered |-> Deliver(f, sent)]

\* Remember adding the identifiers of the snapshot to the known ones
RememberAll(f, entries) ==
    [f EXCEPT !.old_items =
                  Some(KnownAfter(entries)
                           \cup (IF f.old_items = None THEN {} ELSE f.old_items[1])),
              !.old_time = SeenTime(f, entries)]

\* lines 397-404: the known items and the state file are brought up to date
Remember(f, entries) ==
    [f EXCEPT !.old_items = Some(KnownAfter(entries)),
              !.old_time = SeenTime(f, entries)]

\* lines 397-410 once the check for new items has given c; f1 is the feed
\* with its known items brought up to date
Recorded(f1, file, fp, diskOk, c) ==
    IF c.new_items /\ ~diskOk
    THEN Outcome(f1, file, "Raised", TRUE, Some(fp), c.sent, c.treated, FALSE)
    ELSE Outcome([f1 EXCEPT !.etag = fp.etag, !.modified = fp.modified],
                 IF c.new_items THEN Save(f1, file) ELSE file,
                 "Updated", TRUE, Some(fp), c.sent, c.treated, c.new_items)

\* lines 373-410: the snapshot fp has passed the checks for a change
Record(f, file, fp, diskOk, c) ==
    Recorded(IF c.new_items THEN Remember(f, fp.entries) ELSE f, file, fp, diskOk, c)

\* lines 347-371: f has its backoff reset; fp is what the fetch returned
Changed(f, file, fp, diskOk) ==
    IF fp = None
    THEN \* getattr(fp, ...) gives the defaults; len(fp.entries) raises
         Outcome(f, file, "Raised", TRUE, None, <<>>, <<>>, FALSE)
    ELSE IF fp[1].status = 304
    THEN Outcome(f, file, "Unchanged", TRUE, None, <<>>, <<>>, FALSE)
    ELSE IF SameValidator(fp[1].etag, f.etag) \/ SameValidator(fp[1].modified, f.modified)
    THEN Outcome(f, file, "Unchanged", TRUE, fp, <<>>, <<>>, FALSE)
    ELSE Record(f, file, fp[1], diskOk, CheckItems(f, fp[1].entries))

\* lines 348-352: a permanent redirect replaces the url
Redirect(f, fp) ==
    IF fp # None /\ fp[1].status = 301 /\ fp[1].href # None
    THEN [f EXCEPT !.url = fp[1].href]
    ELSE f

\* lines 342-371: fp is the optional object the fetch returned
Fetched(f, file, fp, diskOk) == Changed(Redirect(ResetBackoff(f), fp), file, fp, diskOk)

\* lines 318-340: the gate is passed and the interval is not 0
Fetch(f, file, resp, diskOk) ==
    IF resp.kind = "fail"
    THEN Outcome(Disable(f), file, "Disabled", TRUE, None, <<>>, <<>>, FALSE)
    ELSE Fetched(f, file, IF f.soup THEN UpdateSoup(f, resp) ELSE UpdateFeed(f, resp),
                 diskOk)

\* Aged leaving the age as it is
AgedNot(f, elapsed_seconds) == f

\* line 315
Aged(f, elapsed_seconds) == [f EXCEPT !.age = f.age + elapsed_seconds]

\* Throttled holding a feed back for one interval more
ThrottledLate(f) == f.age < 2 * f.interval + f.backoff

\* line 316: the feed is not due yet
Throttled(f) == f.age < f.interval + f.backoff

\* Reduced setting the age to 0
ReducedToZero(f) == [f EXCEPT !.age = 0]

\* line 318, for an interval that is not 0
Reduced(f) == [f EXCEPT !.age = f.age % f.interval]

\* lines 316-318: f has its age advanced
Gate(f, file, resp, diskOk) ==
    IF Throttled(f)
    THEN Outcome(f, file, "Skipped", FALSE, None, <<>>, <<>>, FALSE)
    ELSE IF f.interval = 0
    THEN \* self.age % self.interval raises ZeroDivisionError
         Outcome(f, file, "Raised", FALSE, None, <<>>, <<>>, FALSE)
    ELSE Fetch(Reduced(f), file, resp, diskOk)

\* Feed.update(bot, elapsed_seconds).  Outcomes: "Skipped" (returns False),
\* "Disabled", "Unchanged", "Updated" (return True), "Raised" (an exception
\* leaves update: ZeroDivisionError at line 318, AttributeError at line 371,
\* IOError from save at line 404)
Update(f, file, elapsed_seconds, resp, diskOk) ==
    Gate(Aged(f, elapsed_seconds), file, resp, diskOk)

\* Returns when only an update that recorded a snapshot returned True
ReturnsUpdated(outcome) == outcome = "Updated"

\* Returns when a failed fetch returned False like the gate
ReturnsUnlessFailed(outcome) == outcome \notin {"Skipped", "Disabled"}

\* the value update returns to update_feeds (line 467)
Returns(outcome) == outcome # "Skipped"

-----------------------------------------------------------------------------
(* pipe.py: the Pipe object.  A line and a stream are texts of bytes; the  *)
(* buffer file is an optional text.                                        *)

\* a byte above 127, as the UTF-8 form of a non-ASCII character holds them
HighByte == "xE9"

\* ord(i) < 128
IsAscii(c) == c # HighByte

\* str.lower over the letters the model's recipients are written with
Lower(s) ==
    [k \in 1..Len(s) |-> IF s[k] = "A" THEN "a" ELSE IF s[k] = "B" THEN "b" ELSE s[k]]

\* the position of the first " " of a line, 0 if there is none
RECURSIVE FirstSpace(_, _)
FirstSpace(line, k) ==
    IF k > Len(line) THEN 0
    ELSE IF line[k] = " " THEN k
    ELSE FirstSpace(line, k + 1)

\* lines 66-70: line.split(' ', 1), the recipient lowered, the message
\* stripped; None when the line has no " " (the unpacking raises ValueError)
Parse(line) ==
    IF FirstSpace(line, 1) = 0 THEN None
    ELSE Some([recipient |-> Lower(SubSeq(line, 1, FirstSpace(line, 1) - 1)),
               message |-> Strip(SubSeq(line, FirstSpace(line, 1) + 1, Len(line)))])

\* lines 73-79: the recipient passes the whitelist, if any, and the blacklist
Allowed(p, recipient) ==
    /\ p.enable # {} => recipient \in p.enable
    /\ recipient \notin p.exclude

\* write of a byte string to a file opened by codecs.open(..., encoding =
\* 'utf-8'): the bytes are decoded as ASCII and encoded as UTF-8, which gives
\* the same bytes back, and the decoding raises UnicodeDecodeError (None) on
\* a byte above 127
Utf8Write(bytes) ==
    IF \A k \in 1..Len(bytes) : IsAscii(bytes[k]) THEN Some(bytes) ELSE None

\* codecs.open(self.buffer_file, 'a', ...): the file exists from here on
OpenAppend(file) == IF file = None THEN Some(<<>>) ELSE file

\* buffer.write(line + '\n') on the file opened for appending
WriteLine(file, line) ==
    IF Utf8Write(line \o <<NL>>) = None THEN file
    ELSE Some(file[1] \o Utf8Write(line \o <<NL>>)[1])

\* Pipe.process_line for a line of process_lines; sendOk: bot.msg returns
\* (else it raises), canOpen: the buffer file can be opened for appending.
\* An exception that leaves process_line (ValueError at line 66, the unbound
\* buffer at lines 92-94, UnicodeDecodeError at line 92) is caught at line
\* 118 of process_lines.
ProcessLine(p, line, sendOk, canOpen) ==
    IF Parse(line) = None THEN p
    ELSE IF ~Allowed(p, Parse(line)[1].recipient) THEN p
    ELSE IF sendOk THEN [p EXCEPT !.out = Append(@, Parse(line)[1])]
    ELSE IF ~canOpen THEN p
    ELSE [p EXCEPT !.buffer = WriteLine(OpenAppend(@), line)]

\* lines 110-120 while the pipe is running: every non-empty line goes to
\* process_line; oks[k] tells whether the send of the k-th line returns
RECURSIVE SendLines(_, _, _, _, _)
SendLines(p, lines, k, oks, canOpen) ==
    IF k > Len(lines) THEN p
    ELSE SendLines(IF RStrip(lines[k]) = <<>> THEN p
                   ELSE ProcessLine(p, RStrip(lines[k]), oks[k], canOpen),
                   lines, k + 1, oks, canOpen)

\* lines 110-120 with the buffer file open: every non-empty line is written
\* to it; a write that raises is caught at line 118
RECURSIVE BufferLines(_, _, _)
BufferLines(file, lines, k) ==
    IF k > Len(lines) THEN file
    ELSE BufferLines(IF RStrip(lines[k]) = <<>> THEN file
                     ELSE WriteLine(file, RStrip(lines[k])),
                     lines, k + 1)

\* Pipe.process_lines on a stream: running is read once, at line 100
ProcessLines(p, stream, oks, canOpen) ==
    IF ~p.running /\ canOpen
    THEN [p EXCEPT !.buffer = BufferLines(OpenAppend(@), SplitLines(stream, <<>>), 1)]
    ELSE SendLines(p, SplitLines(stream, <<>>), 1, oks, canOpen)

\* Pipe.__init__ and what the model keeps with it: pc is the position of
\* the thread, queue the connections waiting to be accepted, held the old
\* buffer file while run reads it, out the messages sent, got the accepted
\* lines that have arrived, connects the number of client connections made
NewPipe ==
    [pc |-> "unset", running |-> TRUE, enable |-> {}, exclude |-> {},
     buffer |-> None, held |-> <<>>, queue |-> <<>>, out |-> <<>>, got |-> <<>>,
     connects |-> 0]

-----------------------------------------------------------------------------
(* The scheduler: setup and update_feeds. *)

NumFeeds == Len(feeds)

\* last before the first non-skipped update of a tick
NoUpdate ==
    [feed |-> 0, outcome |-> "None", status |-> 0, snapshot |-> None,
     pre |-> NewFeed, sent |-> <<>>, treated |-> <<>>, delivered |-> <<>>,
     wrote |-> FALSE]

\* setup: one Feed per configured section, its state loaded from its file
Setup(sections, disk) ==
    /\ feeds = [i \in 1..Len(sections) |->
                    Load(ParseConfig(NewFeed, sections[i]), disk[i])]
    /\ files = disk
    /\ next = 0
    /\ lock = "free"
    /\ tick = [pc |-> "idle", start |-> 0, order |-> <<>>, k |-> 0, log |-> <<>>,
               status |-> "none"]
    /\ last = NoUpdate
    /\ prev = [i \in 1..Len(sections) |-> None]
    /\ config = sections
    /\ flush = [pc |-> "idle", k |-> 0]
    /\ saved = [i \in 1..Len(sections) |-> None]
    /\ crash = None
    /\ told = [i \in 1..Len(sections) |-> {}]
    /\ since = [i \in 1..Len(sections) |-> 0]
    /\ pipe = NewPipe

\* Order starting at the first feed whatever the cursor
OrderFromFirst(start, n) == [k \in 1..n |-> k - 1]

\* line 465: the traversal order, as indices into data.feeds
Order(start, n) == [k \in 1..n |-> ((k - 1) + start) % n]

\* update_feeds takes data.lock and computes the traversal order
TickStart ==
    /\ tick.pc = "idle"
    /\ lock = "free"
    /\ lock' = "tick"
    /\ tick' = [pc |-> "loop", start |-> next, order |-> Order(next, NumFeeds),
                k |-> 0, log |-> <<>>, status |-> "running"]
    /\ last' = NoUpdate
    /\ UNCHANGED <<feeds, files, next>>

\* lines 467-468: the loop goes on after an update with this outcome
GoesOn(outcome) == ~Returns(outcome) /\ outcome # "Raised"

\* the fetch may fail MaxFails times in a row; a feed whose age only grows
\* is visited while its age is below MaxAge
MayAnswer(f, resp) ==
    /\ resp.kind = "fail" => f.backoff < MaxFails * f.interval
    /\ f.interval = 0 => f.age < MaxAge

\* one iteration of the loop of update_feeds: data.next = i + 1, then
\* data.feeds[i].update(bot, INTERVAL) with the answer resp of the remote end
\* and the state directory writable or not
Visit(resp, diskOk) ==
    /\ tick.pc = "loop"
    /\ MayAnswer(feeds[tick.order[tick.k + 1] + 1], resp)
    /\ \E i \in {tick.order[tick.k + 1]} :
       \E r \in {Update(feeds[i + 1], files[i + 1], INTERVAL, resp, diskOk)} :
       \E more \in {GoesOn(r.outcome) /\ tick.k + 1 < Len(tick.order)} :
           /\ next' = i + 1
           /\ feeds' = [feeds EXCEPT ![i + 1] = r.feed]
           /\ files' = [files EXCEPT ![i + 1] = r.file]
           /\ tick' = [tick EXCEPT
                          !.pc = IF more THEN "loop" ELSE "exit",
                          !.k = @ + 1,
                          !.log = Append(@, [feed |-> i, outcome |-> r.outcome,
                                             fetched |-> r.fetched]),
                          !.status = IF r.outcome = "Raised" THEN "raised"
                                     ELSE IF more THEN "running" ELSE "returned"]
           /\ last' = IF r.outcome = "Skipped" THEN last
                      ELSE [feed |-> i, outcome |-> r.outcome,
                            status |-> IF r.fetched THEN resp.status ELSE 0,
                            snapshot |-> r.snapshot,
                            pre |-> feeds[i + 1], sent |-> r.sent,
                            treated |-> r.treated, delivered |-> r.delivered,
                            wrote |-> r.wrote]
    /\ UNCHANGED lock

\* Release keeping the lock when an exception passes through
ReleaseUnlessRaised(status) == IF status = "raised" THEN "tick" ELSE "free"

\* line 463: the with statement releases data.lock however the block is left
Release(status) == "free"

\* update_feeds leaves the with block: by return, at the end of the loop or
\* by an exception passing through
TickEnd ==
    /\ tick.pc = "exit"
    /\ lock = "tick"
    /\ lock' = Release(tick.status)
    /\ tick' = [tick EXCEPT !.pc = "idle"]
    /\ UNCHANGED <<feeds, files, next, last>>

\* prev as kept by a specification that compares consecutive updates: when
\* a tick starts, what the last non-skipped update received moves to prev
KeepPrev ==
    prev' = IF last.outcome = "None" THEN prev
            ELSE [prev EXCEPT ![last.feed + 1] =
                     IF last.snapshot = None THEN None
                     ELSE Some([entries |-> last.snapshot[1].entries,
                                etag |-> last.snapshot[1].etag,
                                modified |-> last.snapshot[1].modified])]

-----------------------------------------------------------------------------
(* The environment: configurations and what the remote end may answer. *)

Entry(guid, title, link, published, time) ==
    [guid |-> guid, title |-> title, link |-> link, published |-> published,
     time |-> time]

\* entries with an explicit guid, a title and a published time
ItemA1 == Entry(Some(<<"a">>), Some(<<"A">>), None, None, Some(1))

ItemA2 == Entry(Some(<<" ", "a", NL>>), Some(<<"A">>), None, None, Some(2))

ItemB2 == Entry(Some(<<"b">>), Some(<<"B">>), None, None, Some(2))

\* an entry with a guid and a title but no published time
ItemC == Entry(Some(<<"c">>), Some(<<"C">>), None, None, None)

\* an entry with a link and a published text only
ItemL == Entry(None, None, Some(<<"l">>), Some(<<"p">>), None)

\* an entry with no guid, title, link or published time
ItemE == Entry(None, None, None, None, None)

\* all lists of at most n entries from items
Snapshots(items, n) == UNION {[1..k -> items] : k \in 0..n}

Answer(kind, status, href, entries, etag, modified) ==
    [kind |-> kind, status |-> status, href |-> href, entries |-> entries,
     etag |-> etag, modified |-> modified]

Fail == Answer("fail", 0, None, <<>>, None, None)

NotModified == Answer("ok", 304, None, <<>>, None, None)

Moved(entries) == Answer("ok", 301, Some(<<"u", "2">>), entries, None, None)

Ok(snapshots, etags, modifieds) ==
    {Answer("ok", 200, None, e, t, m) : e \in snapshots, t \in etags, m \in modifieds}

Section(interval, soup, max_items, enable, exclude) ==
    [url |-> Some(<<"u", "1">>), interval |-> interval, soup |-> soup,
     max_items |-> max_items, enable |-> enable, exclude |-> exclude]

ChanA == <<"#", "a">>

ChanB == <<"#", "b">>

-----------------------------------------------------------------------------
(* SpecFeed: one structured feed polled every minute, rich snapshots. *)

FeedItems == {ItemA1, ItemA2, ItemB2, ItemC, ItemL, ItemE}

FeedAnswers ==
    {Fail, NotModified}
        \cup Ok(Snapshots(FeedItems, MaxEntries), {None, Some("e1")}, {None})

InitFeed ==
    \E m \in {1, 2} :
        Setup(<<Section(Some(1), FALSE, Some(m), <<ChanA>>, {})>>, <<None>>)

StartFeed == TickStart /\ UNCHANGED <<prev, life>>

VisitFeed == (\E resp \in FeedAnswers : Visit(resp, TRUE)) /\ UNCHANGED <<prev, life>>

EndFeed == TickEnd /\ UNCHANGED <<prev, life>>

NextFeed == StartFeed \/ VisitFeed \/ EndFeed

SpecFeed == InitFeed /\ [][NextFeed]_vars

-----------------------------------------------------------------------------
(* Reading the model's state for the claims. *)

\* the feed the non-skipped update of this tick belongs to, as it is now
LastFeed == feeds[last.feed + 1]

LastFile == files[last.feed + 1]

\* the entries of the snapshot that update received
LastEntries == last.snapshot[1].entries

\* the identifiers of a list of entries
GuidsOf(entries) == {Guid(entries[k]) : k \in 1..Len(entries)}

\* the lines of a state file without their line ends
FileLines(file) ==
    [k \in 1..Len(SplitLines(file[1], <<>>)) |->
        SubSeq(SplitLines(file[1], <<>>)[k], 1, Len(SplitLines(file[1], <<>>)[k]) - 1)]

\* the identifier lines of a state file
FileGuids(file) == {FileLines(file)[k] : k \in 2..Len(FileLines(file))}

\* the published times of a list of entries
TimesOf(entries) ==
    {entries[k].time[1] : k \in {j \in 1..Len(entries) : entries[j].time # None}}

\* the largest of a set of times, 0 for none
MaxOf(times) == IF times = {} THEN 0 ELSE CHOOSE t \in times : \A u \in times : u <= t

\* an update of a feed that had no known items recorded a snapshot
FirstRecord == last.outcome = "Updated" /\ last.pre.old_items = None

\* an update of a feed with known items processed a snapshot
LaterRecord == last.outcome = "Updated" /\ last.pre.old_items # None

-----------------------------------------------------------------------------
(* C1 *)

-----------------------------------------------------------------------------
(* C2 *)

\* the positions of the entries the claim calls new
NewPositions(f, entries) ==
    {k \in 1..Len(entries) :
        /\ Guid(entries[k]) \notin f.old_items[1]
        /\ entries[k].time = None \/ entries[k].time[1] > f.old_time}

\* C2: in an update of a feed with known items that processes a snapshot,
\* an entry is treated as new (announced or counted for the summary) iff its
\* identifier was not known before the update and it has no published time
\* or one strictly greater than lastSeenTime as it was before the update.
\* Treated as new is: handed to new_item while the cap lasts, counted for the
\* summary afterwards (new_item sends nothing for an entry that has neither
\* title nor link).
C2_NewIffUnknownAndNewer ==
    LaterRecord =>
        {last.treated[k] : k \in 1..Len(last.treated)}
            = NewPositions(last.pre, LastEntries)

\* an update treated one entry as new and passed over another whose
\* identifier was not known
C2_Witness ==
    /\ LaterRecord
    /\ Len(last.treated) = 1
    /\ \E k \in 1..Len(LastEntries) :
           /\ Guid(LastEntries[k]) \notin last.pre.old_items[1]
           /\ k \notin NewPositions(last.pre, LastEntries)

-----------------------------------------------------------------------------
(* C10 *)

\* C10: for every lastSeenTime and identifier set an update leaves behind,
\* Save followed by Load gives back the same time and the same set.
C10_SaveLoadRoundTrip ==
    \A i \in 1..NumFeeds :
        feeds[i].old_items # None =>
            /\ Load(NewFeed, Save(feeds[i], None)).old_time = feeds[i].old_time
            /\ Load(NewFeed, Save(feeds[i], None)).old_items = feeds[i].old_items

-----------------------------------------------------------------------------
(* SpecCache: one feed, structured or scraped, answers with validators;    *)
(* prev keeps what the previous non-skipped update received.               *)

CacheSnapshots == {<<>>, <<ItemA1>>, <<ItemB2, ItemA1>>, <<ItemC, ItemL>>}

CacheAnswers ==
    {Fail, NotModified, Moved(<<ItemA1>>)}
        \cup Ok(CacheSnapshots, {None, Some("e1"), Some("e2")}, {None, Some("m1")})

InitCache ==
    \E soup \in BOOLEAN :
        Setup(<<Section(Some(1), soup, Some(1), <<ChanA>>, {})>>, <<None>>)

StartCache == TickStart /\ KeepPrev /\ UNCHANGED life

VisitCache == (\E resp \in CacheAnswers : Visit(resp, TRUE)) /\ UNCHANGED <<prev, life>>

EndCache == TickEnd /\ UNCHANGED <<prev, life>>

NextCache == StartCache \/ VisitCache \/ EndCache

SpecCache == InitCache /\ [][NextCache]_vars

-----------------------------------------------------------------------------
(* Spec: the scheduler over two structured feeds polled every 0, 1 or 2    *)
(* minutes; the state directory may be unwritable.                         *)

SchedAnswers == {Fail, NotModified} \cup Ok({<<ItemA1>>}, {None, Some("e1")}, {None})

SchedSections == {Section(Some(m), FALSE, None, <<ChanA>>, {}) : m \in {0, 1, 2}}

Init == \E s1, s2 \in SchedSections : Setup(<<s1, s2>>, <<None, None>>)

StartSched == TickStart /\ UNCHANGED <<prev, life>>

VisitSched ==
    (\E resp \in SchedAnswers, diskOk \in BOOLEAN : Visit(resp, diskOk))
        /\ UNCHANGED <<prev, life>>

EndSched == TickEnd /\ UNCHANGED <<prev, life>>

Next == StartSched \/ VisitSched \/ EndSched

Spec == Init /\ [][Next]_vars

-----------------------------------------------------------------------------
(* SpecMsg: one feed under every allow-list and deny-list over three       *)
(* channels, the allow-list in every iteration order.                      *)

ChanC == <<"#", "c">>

\* the orders in which the set S may be iterated
Orders(S) ==
    {o \in [1..Cardinality(S) -> S] : \A j, k \in 1..Cardinality(S) : j # k => o[j] # o[k]}

MsgAnswers == Ok({<<ItemA1>>, <<ItemB2, ItemA1>>}, {None}, {None})

InitMsg ==
    \E allow \in SUBSET {ChanA, ChanB, ChanC}, deny \in SUBSET {ChanA, ChanB} :
        \E enable \in Orders(allow) :
            Setup(<<Section(Some(1), FALSE, None, enable, deny)>>, <<None>>)

StartMsg == TickStart /\ UNCHANGED <<prev, life>>

VisitMsg == (\E resp \in MsgAnswers : Visit(resp, TRUE)) /\ UNCHANGED <<prev, life>>

EndMsg == TickEnd /\ UNCHANGED <<prev, life>>

NextMsg == StartMsg \/ VisitMsg \/ EndMsg

SpecMsg == InitMsg /\ [][NextMsg]_vars

-----------------------------------------------------------------------------
(* C3 *)

\* a call of update_feeds has finished its traversal
TickOver == tick.pc = "exit"

\* the traversal of this tick visited the feeds one by one in cyclic order
\* from the cursor, each at most once, and left the cursor behind the last
CyclicFromCursor ==
    /\ Len(tick.log) >= 1
    /\ Len(tick.log) <= NumFeeds
    /\ \A k \in 1..Len(tick.log) : tick.log[k].feed = (tick.start + k - 1) % NumFeeds
    /\ next = tick.log[Len(tick.log)].feed + 1

\* C3 as stated: the traversal starts at the cursor, visits feeds in cyclic
\* order at most once each and ends early only at a feed whose update
\* returned Updated (Skipped, Unchanged and Disabled do not end it).
C3_EndsOnlyAtUpdated ==
    TickOver =>
        /\ CyclicFromCursor
        /\ (Len(tick.log) < NumFeeds /\ tick.status # "raised")
               => tick.log[Len(tick.log)].outcome = "Updated"

\* C3 amended: the traversal starts at the cursor, visits feeds in cyclic
\* order at most once each and ends at the first feed whose update is not
\* Skipped (it returned Updated, Unchanged or Disabled, or raised), leaving
\* the cursor one past that feed; only Skipped lets it go on, so when every
\* update is Skipped every feed is visited exactly once.
C3_EndsAtFirstNotSkipped ==
    TickOver =>
        /\ CyclicFromCursor
        /\ \A k \in 1..(Len(tick.log) - 1) : tick.log[k].outcome = "Skipped"
        /\ Len(tick.log) < NumFeeds => tick.log[Len(tick.log)].outcome # "Skipped"

\* a traversal that began at the second feed wrapped around and ended at
\* the first feed, whose update found nothing changed
C3_Witness ==
    /\ TickOver
    /\ tick.start % NumFeeds = 1
    /\ Len(tick.log) = 1
    /\ NumFeeds = 2
    /\ tick.log[1].outcome \in {"Unchanged", "Disabled"}

-----------------------------------------------------------------------------
(* C4 *)

\* this step is an update of feed i (an index into feeds) with outcome o
Updates(i, o) ==
    /\ tick.pc = "loop"
    /\ Len(tick'.log) = Len(tick.log) + 1
    /\ tick'.log[Len(tick'.log)].feed = i - 1
    /\ tick'.log[Len(tick'.log)].outcome = o

\* C4: a failed fetch never decreases backoff (and the skipped updates
\* between two failed fetches leave it alone), and backoff is 0 right after
\* every update whose outcome is Updated or Unchanged.
C4_Backoff ==
    [][\A i \in 1..NumFeeds :
          /\ Updates(i, "Disabled") => feeds'[i].backoff >= feeds[i].backoff
          /\ Updates(i, "Skipped") => feeds'[i].backoff = feeds[i].backoff
          /\ Updates(i, "Updated") \/ Updates(i, "Unchanged") => feeds'[i].backoff = 0]_vars

\* a fetch succeeded after two failed fetches in a row
C4_Witness ==
    /\ last.outcome \in {"Updated", "Unchanged"}
    /\ last.pre.backoff > last.pre.interval
    /\ LastFeed.backoff = 0

-----------------------------------------------------------------------------
(* C5 *)

\* C5: an update of a feed with interval 0 is never throttled: it passes the
\* gate, fetches and ends with a normal outcome.
C5_IntervalZeroFetches ==
    \A k \in 1..Len(tick.log) :
        feeds[tick.log[k].feed + 1].interval = 0 =>
            /\ tick.log[k].fetched
            /\ tick.log[k].outcome \in {"Disabled", "Unchanged", "Updated"}

-----------------------------------------------------------------------------
(* C6 *)

\* the destinations the claim gives a feed's notifications
Destinations(f) ==
    (IF f.enable[1] # <<>>
     THEN {f.enable[1][k] : k \in 1..Len(f.enable[1])}
     ELSE {Privileges[k] : k \in 1..Len(Privileges)}) \ f.exclude

\* C6: every notification of a feed reaches exactly its allow-list (all
\* joined destinations when the list is empty) minus its deny-list.
C6_DeliveredToAllowedNotDenied ==
    \A m \in 1..Len(last.sent) :
        {last.delivered[k].chan :
            k \in {j \in 1..Len(last.delivered) : last.delivered[j].text = last.sent[m]}}
            = Destinations(LastFeed)

-----------------------------------------------------------------------------
(* C7 *)

\* C7: when the remote end answers 304, update returns Unchanged without
\* raising, sends nothing, leaves backoff at 0 and leaves the known items,
\* lastSeenTime, the validators and the state file as they were.
C7_NotModifiedChangesNothing ==
    last.status = 304 =>
        /\ last.outcome = "Unchanged"
        /\ last.sent = <<>>
        /\ ~last.wrote
        /\ LastFeed.backoff = 0
        /\ LastFeed.old_items = last.pre.old_items
        /\ LastFeed.old_time = last.pre.old_time
        /\ LastFeed.etag = last.pre.etag
        /\ LastFeed.modified = last.pre.modified

-----------------------------------------------------------------------------
(* C8 *)

\* C8: a failure raised by one feed's update is caught at the scheduler and
\* does not leave update_feeds.
C8_FailureStaysInTick == tick.status # "raised"

-----------------------------------------------------------------------------
(* C9 *)

\* the update of this tick received the snapshot and etag that the
\* previous non-skipped update of the same feed received
SameAsBefore ==
    /\ last.snapshot # None
    /\ prev[last.feed + 1] # None
    /\ prev[last.feed + 1][1].entries = LastEntries
    /\ prev[last.feed + 1][1].etag = last.snapshot[1].etag

\* the update of this tick sent nothing and left the known items and the
\* state file as they were
Silent ==
    /\ last.sent = <<>>
    /\ last.delivered = <<>>
    /\ ~last.wrote
    /\ LastFeed.old_items = last.pre.old_items
    /\ LastFeed.old_time = last.pre.old_time
    /\ LastFile = Save(last.pre, None)

-----------------------------------------------------------------------------
(* The process lifetime: a crash during save, a restart. *)

\* the idle position of update_feeds
Idle == [pc |-> "idle", start |-> 0, order |-> <<>>, k |-> 0, log |-> <<>>,
         status |-> "none"]

\* the process is killed and started again: setup builds every feed anew
\* from its section and its state file; age, backoff, validators and the
\* cursor are lost.  saved keeps the snapshot a feed recorded in its last
\* tick, until that feed's next non-skipped update is over.
Restart ==
    /\ tick.pc \in {"idle", "down"}
    /\ flush.pc = "idle"
    /\ feeds' = [i \in 1..NumFeeds |-> Load(ParseConfig(NewFeed, config[i]), files[i])]
    /\ next' = 0
    /\ lock' = "free"
    /\ tick' = Idle
    /\ last' = NoUpdate
    /\ saved' = [i \in 1..NumFeeds |->
                    IF last.outcome = "None" THEN saved[i]
                    ELSE IF last.outcome = "Updated" /\ last.feed = i - 1
                    THEN Some(last.snapshot[1].entries)
                    ELSE None]
    /\ crash' = None
    /\ told' = [i \in 1..NumFeeds |-> {}]
    /\ since' = [i \in 1..NumFeeds |-> 0]
    /\ UNCHANGED <<files, prev, config, flush, pipe>>

\* saved as kept when a tick starts: the feed updated in the tick before is
\* no longer waiting for its first update after the restart
KeepSaved ==
    saved' = IF last.outcome = "None" THEN saved
             ELSE [saved EXCEPT ![last.feed + 1] = None]

\* lines 163-167 cut short: codecs.open(..., 'w') has emptied the file and
\* the first j characters of the new text have reached the disk
Partial(text, j) == SubSeq(text, 1, j)

\* one iteration of the loop of update_feeds in which the process dies
\* inside save (line 404), after j characters have been written
Crash(resp) ==
    /\ tick.pc = "loop"
    /\ flush.pc = "idle"
    /\ MayAnswer(feeds[tick.order[tick.k + 1] + 1], resp)
    /\ \E i \in {tick.order[tick.k + 1]} :
       \E r \in {Update(feeds[i + 1], files[i + 1], INTERVAL, resp, TRUE)} :
           /\ r.wrote
           /\ \E j \in 0..Len(r.file[1]) :
                  files' = [files EXCEPT ![i + 1] = Some(Partial(r.file[1], j))]
           /\ crash' = Some([feed |-> i, before |-> files[i + 1], after |-> r.file])
           /\ saved' = [saved EXCEPT ![i + 1] = None]
           /\ next' = i + 1
           /\ tick' = [tick EXCEPT !.pc = "down", !.status = "crashed"]
    /\ UNCHANGED <<feeds, lock, last, prev, config, flush, told, since, pipe>>

-----------------------------------------------------------------------------
(* SpecRestart: one structured feed whose process may crash inside save    *)
(* and may be restarted between two ticks.                                 *)

\* an entry with a title and an empty link: its identifier is empty
ItemT == Entry(None, Some(<<"T">>), Some(<<>>), None, None)

RestartItems == {ItemA1, ItemB2, ItemC, ItemT}

RestartAnswers ==
    {Fail, NotModified} \cup Ok(Snapshots(RestartItems, MaxEntries), {None}, {None})

InitRestart == Setup(<<Section(Some(1), FALSE, Some(2), <<ChanA>>, {})>>, <<None>>)

StartRestart ==
    TickStart /\ KeepSaved
        /\ UNCHANGED <<prev, config, flush, crash, told, since, pipe>>

VisitRestart == (\E resp \in RestartAnswers : Visit(resp, TRUE)) /\ UNCHANGED <<prev, life>>

CrashRestart == \E resp \in RestartAnswers : Crash(resp)

EndRestart == TickEnd /\ UNCHANGED <<prev, life>>

NextRestart == StartRestart \/ VisitRestart \/ CrashRestart \/ EndRestart \/ Restart

SpecRestart == InitRestart /\ [][NextRestart]_vars

-----------------------------------------------------------------------------
(* C11 *)

\* the update of this tick is the first non-skipped one of its feed since
\* the restart; the feed had recorded and saved the same snapshot before
SameAsSaved ==
    /\ last.outcome = "Updated"
    /\ saved[last.feed + 1] # None
    /\ saved[last.feed + 1][1] = LastEntries

\* C11: when a feed's state was saved after an update recorded snapshot S
\* and the process restarted, the first successful update after the restart
\* that receives S again sends no notification.
C11_RestartIsSilent == SameAsSaved => last.sent = <<>>

-----------------------------------------------------------------------------
(* C12 *)

\* C12: whenever a save is cut short by a crash, the state file is either
\* the complete previous state or the complete new state.
C12_SaveIsAtomic ==
    crash # None =>
        files[crash[1].feed + 1] \in {crash[1].before, crash[1].after}

-----------------------------------------------------------------------------
(* SpecCap: one structured feed with cap 0, 1 or 2, answers without        *)
(* validators.                                                             *)

CapItems == {ItemA1, ItemB2, ItemC, ItemE}

CapAnswers == Ok(Snapshots(CapItems, MaxEntries), {None}, {None})

InitCap ==
    \E m \in {0, 1, 2} :
        Setup(<<Section(Some(1), FALSE, Some(m), <<ChanA>>, {})>>, <<None>>)

StartCap == TickStart /\ UNCHANGED <<prev, life>>

VisitCap == (\E resp \in CapAnswers : Visit(resp, TRUE)) /\ UNCHANGED <<prev, life>>

EndCap == TickEnd /\ UNCHANGED <<prev, life>>

NextCap == StartCap \/ VisitCap \/ EndCap

SpecCap == InitCap /\ [][NextCap]_vars

-----------------------------------------------------------------------------
(* C13 *)

\* a set of positions from the last one to the first: oldest entry first
RECURSIVE OldestFirst(_)
OldestFirst(S) ==
    IF S = {} THEN <<>>
    ELSE <<MaxOf(S)>> \o OldestFirst(S \ {MaxOf(S)})

Min(a, b) == IF a <= b THEN a ELSE b

\* the messages new_item sends for the entries at the first n of positions
RECURSIVE TextsOf(_, _, _, _)
TextsOf(f, entries, positions, n) ==
    IF n = 0 \/ positions = <<>> THEN <<>>
    ELSE NewItem(f, entries[Head(positions)])
             \o TextsOf(f, entries, Tail(positions), n - 1)

\* the summary the claim gives n suppressed items
SummaryFor(n) ==
    IF n = 1 THEN << <<"(and one more item)">> >>
    ELSE IF n > 1 THEN << <<"(and ">> \o Digits(n) \o <<" more items)">> >>
    ELSE <<>>

\* the messages of an update with cap m: the announcements of the m oldest
\* qualifying entries, oldest first, then the summary for the others
CappedMessages(f, entries) ==
    TextsOf(f, entries, OldestFirst(NewPositions(f, entries)), f.max_items)
        \o SummaryFor(Cardinality(NewPositions(f, entries)) - f.max_items)

\* C13 as stated: with cap m and k qualifying entries exactly min(k, m)
\* announcements are sent, those of the m oldest qualifying entries in
\* oldest-to-newest order, followed by "(and one more item)" when
\* k - m = 1, by "(and k-m more items)" when k - m > 1, by nothing else.
C13_CapAnnouncesMin ==
    LaterRecord =>
        /\ last.sent = CappedMessages(last.pre, LastEntries)
        /\ Len(last.sent) =
               Min(Cardinality(NewPositions(last.pre, LastEntries)), last.pre.max_items)
                   + Len(SummaryFor(Cardinality(NewPositions(last.pre, LastEntries))
                                        - last.pre.max_items))

\* C13 amended: with cap m and k qualifying entries the min(k, m) oldest
\* qualifying entries are handed to new_item in oldest-to-newest order,
\* which sends one announcement for each entry that has a title or a link
\* and nothing for an entry that has neither; then "(and one more item)"
\* follows when k - m = 1, "(and k-m more items)" when k - m > 1, and
\* nothing when k <= m.
C13_CapHandsOverMin ==
    LaterRecord =>
        /\ last.sent = CappedMessages(last.pre, LastEntries)
        /\ last.treated = OldestFirst(NewPositions(last.pre, LastEntries))

\* with cap 1 two entries qualified: one announcement, then the summary
C13_Witness ==
    /\ LaterRecord
    /\ last.pre.max_items = 1
    /\ Cardinality(NewPositions(last.pre, LastEntries)) = 2
    /\ Len(last.sent) = 2
    /\ last.sent[2] = <<"(and one more item)">>

-----------------------------------------------------------------------------
(* C14 *)

\* the update of this tick was a failed fetch
FailedFetch == last.outcome = "Disabled"

\* C14 as stated: a failed fetch adds interval + backoff / 10 to backoff
\* with exact division (both sides in tenths of a second), so that three
\* failures in a row from 0 with interval 60 give 60, 126, 198.6.
C14_BackoffExact ==
    FailedFetch =>
        10 * LastFeed.backoff
            = 10 * (last.pre.backoff + last.pre.interval) + last.pre.backoff

\* C14 amended: a failed fetch adds interval + floor(backoff / 10) to
\* backoff (integer division), so that three failures in a row from 0 with
\* interval 60 give 60, 126, 198.
C14_BackoffTruncates ==
    FailedFetch =>
        /\ LastFeed.backoff
               = last.pre.backoff + last.pre.interval + (last.pre.backoff \div 10)
        /\ (last.pre.interval = 60 /\ last.pre.backoff = 0) => LastFeed.backoff = 60
        /\ (last.pre.interval = 60 /\ last.pre.backoff = 60) => LastFeed.backoff = 126
        /\ (last.pre.interval = 60 /\ last.pre.backoff = 126) => LastFeed.backoff = 198

\* the third failed fetch in a row of a feed with interval 60
C14_Witness ==
    /\ FailedFetch
    /\ last.pre.interval = 60
    /\ last.pre.backoff = 126
    /\ LastFeed.backoff > 126

-----------------------------------------------------------------------------
(* C15 *)

\* this step is an update of feed i (an index into feeds) that fetched
Fetches(i) ==
    /\ tick.pc = "loop"
    /\ Len(tick'.log) = Len(tick.log) + 1
    /\ tick'.log[Len(tick'.log)].feed = i - 1
    /\ tick'.log[Len(tick'.log)].fetched

-----------------------------------------------------------------------------
(* C16 *)

\* feed i (an index into feeds) is as setup left it, with interval 60
AtSetup(i) ==
    /\ feeds[i] = Load(ParseConfig(NewFeed, config[i]), None)
    /\ feeds[i].interval = 60

\* feed i, with interval 60 and no backoff, has this age
AtAge(i, age) ==
    /\ feeds[i].interval = 60
    /\ feeds[i].backoff = 0
    /\ feeds[i].age = age

\* C16 as stated: the first Update(30) of a feed set up with interval 60
\* returns Skipped with age 30, and the second one passes the gate with
\* age 60.
C16_FirstUpdateSkipped ==
    [][\A i \in 1..NumFeeds :
          (AtSetup(i) /\ \E o \in {"Skipped", "Disabled", "Unchanged", "Updated", "Raised"} :
                             Updates(i, o))
              => (Updates(i, "Skipped") /\ feeds'[i].age = 30)]_vars

\* C16 amended: setup leaves a feed with interval 60 at age 61, so its
\* first Update(30) passes the gate at once with age 91, reduced to 31;
\* with no failure so far the second Update(30) passes the gate as well,
\* with age 61, reduced to 1, and the third one is Skipped with age 31.
C16_FirstUpdateFetches ==
    [][\A i \in 1..NumFeeds :
          /\ AtSetup(i) => feeds[i].age = 61
          /\ (AtSetup(i) /\ tick.pc = "loop" /\ tick'.pc # "loop")
                 => (Fetches(i) /\ feeds'[i].age = 31)
          /\ (AtAge(i, 31) /\ tick.pc = "loop" /\ tick'.pc # "loop")
                 => (Fetches(i) /\ feeds'[i].age = 1)
          /\ (AtAge(i, 1) /\ tick.pc = "loop" /\ tick'.pc # "loop")
                 => (Updates(i, "Skipped") /\ feeds'[i].age = 31)]_vars

\* the second update after setup has passed the gate: the first one had
\* recorded a snapshot and left age 31, the second one left age 1
C16_Witness ==
    /\ last.outcome \in {"Updated", "Unchanged"}
    /\ last.pre.interval = 60
    /\ last.pre.backoff = 0
    /\ last.pre.age = 31
    /\ last.pre.old_items # None
    /\ LastFeed.age = 1

-----------------------------------------------------------------------------
(* SpecLive: two structured feeds polled every one or two minutes; the     *)
(* scheduler keeps calling update_feeds and every call runs to its end.    *)

LiveAnswers == {Fail, NotModified} \cup Ok({<<ItemA1>>}, {None}, {None})

InitLive ==
    \E m \in {1, 2} :
        Setup(<<Section(Some(1), FALSE, None, <<ChanA>>, {}),
                Section(Some(m), FALSE, None, <<ChanA>>, {})>>, <<None, None>>)

StartLive == TickStart /\ UNCHANGED <<prev, life>>

VisitLive == (\E resp \in LiveAnswers : Visit(resp, TRUE)) /\ UNCHANGED <<prev, life>>

EndLive == TickEnd /\ UNCHANGED <<prev, life>>

NextLive == StartLive \/ VisitLive \/ EndLive

\* @interval(INTERVAL) calls update_feeds again and again; an update
\* returns (the socket timeout of line 34 bounds a fetch)
SpecLive ==
    /\ InitLive
    /\ [][NextLive]_vars
    /\ WF_vars(StartLive)
    /\ WF_vars(VisitLive)
    /\ WF_vars(EndLive)

-----------------------------------------------------------------------------
(* C17 *)

\* the latest update of the running traversal is one of feed i (an index
\* into feeds) that passed the gate and fetched
FetchedNow(i) ==
    /\ tick.log # <<>>
    /\ tick.log[Len(tick.log)].feed = i - 1
    /\ tick.log[Len(tick.log)].fetched

\* feed i has failed and is being held back
HeldBack(i) == feeds[i].backoff > 0

\* C17: while update_feeds keeps being called, a feed whose fetch has
\* failed, however often, is always fetched again later: its update passes
\* the gate again.
C17_FailedFeedFetchedAgain ==
    \A i \in {1, 2} : HeldBack(i) ~> FetchedNow(i)

\* a feed that had failed twice in a row has been fetched again, its
\* neighbour being held back as well
C17_Witness ==
    /\ NumFeeds = 2
    /\ last.outcome # "None"
    /\ last.pre.backoff > last.pre.interval
    /\ FetchedNow(last.feed + 1)
    /\ \A i \in {1, 2} : i # last.feed + 1 => HeldBack(i)

-----------------------------------------------------------------------------
(* C18 *)

\* the update of this tick received a snapshot that passed the comparison
\* of the validators
Processed == last.outcome = "Updated"

\* the snapshot holds an identifier the feed did not know, or the feed knew
\* none at all
FoundUnknown ==
    \/ last.pre.old_items = None
    \/ \E k \in 1..Len(LastEntries) : Guid(LastEntries[k]) \notin last.pre.old_items[1]

\* C18 as stated: after every update that processes a snapshot the known
\* items are exactly the identifiers of that snapshot and that set has been
\* written to the state file.
C18_KnownIsSnapshot ==
    Processed =>
        /\ LastFeed.old_items = Some(GuidsOf(LastEntries))
        /\ LastFile # None
        /\ FileGuids(LastFile) = GuidsOf(LastEntries)

\* C18 amended: after an update that processes a snapshot holding at least
\* one unknown identifier (or the first snapshot of a feed without known
\* items) the known items are exactly the identifiers of that snapshot and
\* that set has been written to the state file; after an update that
\* processes a snapshot of known identifiers only, the empty one included,
\* the known items and the state file are left as they were, identifiers
\* absent from the snapshot included.
C18_KnownIsSnapshotIfNew ==
    Processed =>
        IF FoundUnknown
        THEN /\ LastFeed.old_items = Some(GuidsOf(LastEntries))
             /\ last.wrote
             /\ FileGuids(LastFile) = GuidsOf(LastEntries)
        ELSE /\ LastFeed.old_items = last.pre.old_items
             /\ LastFeed.old_time = last.pre.old_time
             /\ ~last.wrote
             /\ LastFile = Save(last.pre, None)

\* a snapshot of one known entry was processed by a feed that knew two
C18_Witness ==
    /\ Processed
    /\ ~FoundUnknown
    /\ Len(LastEntries) = 1
    /\ Cardinality(LastFeed.old_items[1]) = 2

-----------------------------------------------------------------------------
(* shutdown. *)

\* shutdown takes data.lock (line 475)
FlushStart ==
    /\ flush.pc = "idle"
    /\ lock = "free"
    /\ lock' = "flush"
    /\ flush' = [pc |-> IF NumFeeds = 0 THEN "exit" ELSE "save", k |-> 0]
    /\ UNCHANGED <<feeds, files, next, tick, last, prev, config, saved, crash, told,
                   since, pipe>>

\* lines 477-482: one iteration of the loop of shutdown; an exception of
\* save is caught and reported
FlushSave(diskOk) ==
    /\ flush.pc = "save"
    /\ files' = IF diskOk
                THEN [files EXCEPT ![flush.k + 1] = Save(feeds[flush.k + 1], @)]
                ELSE files
    /\ flush' = [pc |-> IF flush.k + 1 < NumFeeds THEN "save" ELSE "exit",
                 k |-> flush.k + 1]
    /\ UNCHANGED <<feeds, next, lock, tick, last, prev, config, saved, crash, told,
                   since, pipe>>

\* shutdown leaves the with block
FlushEnd ==
    /\ flush.pc = "exit"
    /\ lock = "flush"
    /\ lock' = Release("returned")
    /\ flush' = [pc |-> "idle", k |-> 0]
    /\ UNCHANGED <<feeds, files, next, tick, last, prev, config, saved, crash, told,
                   since, pipe>>

-----------------------------------------------------------------------------
(* SpecLock: update_feeds and shutdown called again and again over two     *)
(* structured feeds; the state directory may be unwritable, so that an     *)
(* update may raise.                                                       *)

LockAnswers == {Fail, NotModified} \cup Ok({<<ItemA1>>}, {None}, {None})

InitLock ==
    Setup(<<Section(Some(1), FALSE, None, <<ChanA>>, {}),
            Section(Some(1), FALSE, None, <<ChanA>>, {})>>, <<None, None>>)

StartLock == TickStart /\ UNCHANGED <<prev, life>>

VisitLock ==
    (\E resp \in LockAnswers, diskOk \in BOOLEAN : Visit(resp, diskOk))
        /\ UNCHANGED <<prev, life>>

EndLock == TickEnd /\ UNCHANGED <<prev, life>>

FlushSaveLock == \E diskOk \in BOOLEAN : FlushSave(diskOk)

NextLock ==
    StartLock \/ VisitLock \/ EndLock \/ FlushStart \/ FlushSaveLock \/ FlushEnd

\* a call that holds the lock goes on to the end of its with block
SpecLock ==
    /\ InitLock
    /\ [][NextLock]_vars
    /\ WF_vars(VisitLock)
    /\ WF_vars(EndLock)
    /\ WF_vars(FlushSaveLock)
    /\ WF_vars(FlushEnd)

-----------------------------------------------------------------------------
(* C19 *)

\* a call of update_feeds is inside its with block
InTick == tick.pc \in {"loop", "exit"}

\* a call of shutdown is inside its with block
InFlush == flush.pc \in {"save", "exit"}

\* the lock is held by the call that is inside its with block, by nobody
\* when no call is
LockMatches ==
    /\ ~(InTick /\ InFlush)
    /\ InTick => lock = "tick"
    /\ InFlush => lock = "flush"
    /\ (~InTick /\ ~InFlush) => lock = "free"

\* C19: update_feeds and shutdown never run an update or a save at the same
\* time, the lock is released on every exit of update_feeds, an exception
\* passing through included, and whoever holds the lock gives it up again,
\* so that no later call waits forever for an earlier one.
C19_MutualExclusion ==
    /\ []LockMatches
    /\ (lock # "free") ~> (lock = "free")

\* shutdown is saving the second feed after a call of update_feeds that an
\* exception had left
C19_Witness ==
    /\ InFlush
    /\ flush.k = 1
    /\ tick.status = "raised"
    /\ lock = "flush"

-----------------------------------------------------------------------------
(* C20 *)

\* the update of this tick was one of a feed that had known items
HadKnown == last.outcome # "None" /\ last.pre.old_items # None

\* C20 as stated: the known items never shrink: every identifier known
\* before an update is known after it.
C20_KnownNeverShrinks ==
    HadKnown =>
        /\ LastFeed.old_items # None
        /\ last.pre.old_items[1] \subseteq LastFeed.old_items[1]

\* C20 amended: the known items change only in an update that processes a
\* snapshot holding at least one unknown identifier; they are then replaced
\* by the identifiers of that snapshot, so that known identifiers absent
\* from it are dropped; every other update (a failed fetch, a 304, an equal
\* validator, a snapshot of known identifiers only) leaves them as they
\* were.
C20_KnownReplacedOnlyByNew ==
    HadKnown =>
        /\ LastFeed.old_items # None
        /\ \/ LastFeed.old_items = last.pre.old_items
           \/ /\ Processed
              /\ FoundUnknown
              /\ LastFeed.old_items[1] = GuidsOf(LastEntries)
        /\ (Processed /\ FoundUnknown)
               => (last.pre.old_items[1] \ GuidsOf(LastEntries))
                      \cap LastFeed.old_items[1] = {}

\* an update replaced two known identifiers by one new one
C20_Witness ==
    /\ HadKnown
    /\ Processed
    /\ Cardinality(last.pre.old_items[1]) = 2
    /\ Cardinality(LastFeed.old_items[1]) = 1
    /\ last.pre.old_items[1] \cap LastFeed.old_items[1] = {}

-----------------------------------------------------------------------------
(* C21 *)

\* C21: over every step of every update of a feed (Skipped, failed,
\* Unchanged or Updated, whatever the snapshot), old_time, the time of the
\* newest item seen, never decreases.
C21_SeenTimeNeverDecreases ==
    [][\A i \in 1..NumFeeds : feeds'[i].old_time >= feeds[i].old_time]_vars

\* an update recorded a snapshot whose first entry is older than the time
\* the feed had seen, and the feed kept that time
C21_Witness ==
    /\ last.outcome = "Updated"
    /\ last.wrote
    /\ LastEntries = <<ItemA1>>
    /\ last.pre.old_time = 2
    /\ LastFeed.old_time = 2

-----------------------------------------------------------------------------
(* C24 *)

\* the visits of the current traversal that attempted a fetch
FetchingVisits == {k \in 1..Len(tick.log) : tick.log[k].fetched}

\* C24: in one traversal at most one feed attempts a fetch; every feed
\* visited before the last visited one was Skipped at the gate without
\* fetching, and a visit that attempted a fetch is the last of its traversal.
C24_OneFetchPerTick ==
    /\ Cardinality(FetchingVisits) <= 1
    /\ \A k \in 1..(Len(tick.log) - 1) :
           tick.log[k].outcome = "Skipped" /\ ~tick.log[k].fetched
    /\ \A k \in FetchingVisits : k = Len(tick.log) /\ tick.pc # "loop"

\* a traversal skipped its first feed at the gate and ended at the second,
\* whose fetch failed
C24_Witness ==
    /\ tick.pc = "idle"
    /\ Len(tick.log) = 2
    /\ tick.log[1].outcome = "Skipped"
    /\ ~tick.log[1].fetched
    /\ tick.log[2].outcome = "Disabled"
    /\ tick.log[2].fetched

-----------------------------------------------------------------------------
(* SpecOnce: one structured feed whose items all carry a published time    *)
(* fixed per identifier, snapshots newest first with distinct identifiers; *)
(* told keeps the identifiers announced since setup.                       *)

\* an entry published at the same time as ItemA1
ItemD1 == Entry(Some(<<"d">>), Some(<<"D">>), None, None, Some(1))

OnceItems == {ItemA1, ItemD1, ItemB2}

\* the entries are ordered newest first and their identifiers differ
NewestFirst(entries) ==
    /\ \A j, k \in 1..Len(entries) :
           j < k => entries[j].time[1] >= entries[k].time[1]
    /\ \A j, k \in 1..Len(entries) : j # k => Guid(entries[j]) # Guid(entries[k])

OnceSnapshots == {e \in Snapshots(OnceItems, MaxEntries) : NewestFirst(e)}

OnceAnswers == {Fail, NotModified} \cup Ok(OnceSnapshots, {None}, {None})

\* lines 385-388: the positions of the snapshot given to new_item by the
\* non-skipped update of this tick, the first max_items of those treated
AnnouncedPositions ==
    IF last.snapshot = None THEN {}
    ELSE {last.treated[k] : k \in 1..Min(Len(last.treated), last.pre.max_items)}

\* the identifiers that update announced: new_item made a message for them
AnnouncedGuids ==
    {Guid(LastEntries[k]) :
        k \in {j \in AnnouncedPositions : NewItem(last.pre, LastEntries[j]) # <<>>}}

\* told as kept when a tick starts: what the update of the tick before
\* announced joins the identifiers its feed has announced
KeepTold ==
    told' = IF last.outcome = "None" THEN told
            ELSE [told EXCEPT ![last.feed + 1] = @ \cup AnnouncedGuids]

InitOnce ==
    \E m \in {1, 2} :
        Setup(<<Section(Some(1), FALSE, Some(m), <<ChanA>>, {})>>, <<None>>)

StartOnce ==
    TickStart /\ KeepTold
        /\ UNCHANGED <<prev, config, flush, saved, crash, since, pipe>>

VisitOnce ==
    (\E resp \in OnceAnswers, diskOk \in BOOLEAN : Visit(resp, diskOk))
        /\ UNCHANGED <<prev, life>>

EndOnce == TickEnd /\ UNCHANGED <<prev, life>>

NextOnce == StartOnce \/ VisitOnce \/ EndOnce

SpecOnce == InitOnce /\ [][NextOnce]_vars

-----------------------------------------------------------------------------
(* C22 *)

-----------------------------------------------------------------------------
(* SpecTurn: the scheduler over three feeds, each one structured and       *)
(* polled every two minutes or scraped and polled every minute; a scraped  *)
(* feed answered 304 raises, and so does a save while the state directory  *)
(* is unwritable.  since counts, for every feed, the traversals ended      *)
(* since its last visit.                                                   *)

TurnFeeds == 3

TurnAnswers == {NotModified} \cup Ok({<<ItemA1>>}, {None}, {None})

TurnSections ==
    {Section(Some(2), FALSE, None, <<ChanA>>, {}),
     Section(Some(1), TRUE, None, <<ChanA>>, {})}

InitTurn ==
    \E s \in [1..TurnFeeds -> TurnSections] : Setup(s, [i \in 1..TurnFeeds |-> None])

\* the feeds whose update the current traversal has called
Visited == {tick.log[k].feed : k \in 1..Len(tick.log)}

\* since as kept when a traversal ends
KeepSince ==
    since' = [i \in 1..NumFeeds |-> IF i - 1 \in Visited THEN 0 ELSE since[i] + 1]

StartTurn == TickStart /\ UNCHANGED <<prev, life>>

VisitTurn ==
    (\E resp \in TurnAnswers, diskOk \in BOOLEAN : Visit(resp, diskOk))
        /\ UNCHANGED <<prev, life>>

EndTurn ==
    TickEnd /\ KeepSince
        /\ UNCHANGED <<prev, config, flush, saved, crash, told, pipe>>

NextTurn == StartTurn \/ VisitTurn \/ EndTurn

SpecTurn == InitTurn /\ [][NextTurn]_vars

-----------------------------------------------------------------------------
(* C23 *)

\* C23: with N feeds, no feed goes N traversals in a row without its update
\* being called: among any N consecutive traversals, ended early, run to the
\* end or left by an exception, every feed is visited at least once.
C23_NoFeedStarved == \A i \in 1..NumFeeds : since[i] < NumFeeds

\* a feed that the two traversals before passed over is visited by the
\* third, which an exception ends
C23_Witness ==
    /\ tick.pc = "exit"
    /\ tick.status = "raised"
    /\ \E i \in 1..NumFeeds : since[i] = NumFeeds - 1 /\ i - 1 \in Visited

-----------------------------------------------------------------------------
(* SpecPipe: one pipe, its thread, the clients of its socket and the call  *)
(* of stop; the buffer file can always be opened.                          *)

\* client connections followed per pipe
MaxConnects == 2

\* lines per client connection or initial buffer file
MaxLines == 2

\* "#A  hi ": the recipient is lowered, the message stripped
LineUp == <<"#", "A", " ", " ", "h", "i", " ">>

\* "#a " followed by a byte above 127
LineHigh == <<"#", "a", " ", HighByte>>

\* "#b x"
LineB == <<"#", "b", " ", "x">>

\* a line without a space
LineBad == <<"x">>

\* a line of white space
LineBlank == <<" ">>

PipeLineSet == {LineUp, LineHigh, LineB}

\* the lines, each followed by a line end
RECURSIVE Join(_)
Join(lines) == IF lines = <<>> THEN <<>> ELSE Head(lines) \o <<NL>> \o Join(Tail(lines))

\* what a client may write: up to MaxLines lines
Streams == {Join(ls) : ls \in UNION {[1..n -> PipeLineSet] : n \in 0..MaxLines}}

\* the buffer file setup may find: a blank line, a line without a space and
\* a line for a recipient
Disks == {None, Some(Join(<<LineBlank, LineBad, LineUp>>))}

\* the whitelist and the blacklist of the pipe
Lists ==
    {[enable |-> {}, exclude |-> {<<"#", "b">>}],
     [enable |-> {<<"#", "a">>}, exclude |-> {}]}

\* the recipient and message of every line of a text that is not empty, is
\* well formed and whose recipient passes the lists
RECURSIVE AcceptedFrom(_, _, _)
AcceptedFrom(p, lines, k) ==
    IF k > Len(lines) THEN <<>>
    ELSE (IF /\ RStrip(lines[k]) # <<>>
             /\ Parse(RStrip(lines[k])) # None
             /\ Allowed(p, Parse(RStrip(lines[k]))[1].recipient)
          THEN Parse(RStrip(lines[k]))
          ELSE <<>>) \o AcceptedFrom(p, lines, k + 1)

Accepted(p, text) == AcceptedFrom(p, SplitLines(text, <<>>), 1)

\* every way the sends of the lines of a stream may go
Sends(stream) == [1..Len(SplitLines(stream, <<>>)) -> BOOLEAN]

\* setup: the pipe is configured; the buffer file may hold lines written
\* while the socket was down
PipeSetup ==
    /\ pipe.pc = "unset"
    /\ \E lists \in Lists, disk \in Disks :
           \E p \in {[NewPipe EXCEPT !.enable = lists.enable,
                                     !.exclude = lists.exclude]} :
               pipe' = [p EXCEPT !.pc = "ready", !.buffer = disk,
                                 !.got = IF disk = None THEN <<>>
                                         ELSE Accepted(p, disk[1])]
    /\ UNCHANGED rss

\* connected and Pipe.start: the thread binds the socket and listens
PipeStart ==
    /\ pipe.pc = "ready"
    /\ pipe' = [pipe EXCEPT !.pc = "while"]
    /\ UNCHANGED rss

\* a client connects to the socket and writes its lines
PipeConnect ==
    /\ pipe.pc \in {"while", "flush", "held", "wait"}
    /\ pipe.connects < MaxConnects
    /\ \E stream \in Streams :
           pipe' = [pipe EXCEPT !.queue = Append(@, stream), !.connects = @ + 1]
    /\ UNCHANGED rss

\* handle_connection on the first waiting connection: accept, process_lines
\* on its stream, close
Handle(p, oks) ==
    [ProcessLines([p EXCEPT !.got = @ \o Accepted(p, Head(p.queue))],
                  Head(p.queue), oks, TRUE)
        EXCEPT !.queue = Tail(@)]

\* lines 174-182: the loop condition; while running, the buffer file, if
\* there is one, is opened for reading and unlinked
PipeLoop ==
    /\ pipe.pc = "while"
    /\ pipe' = IF ~pipe.running THEN [pipe EXCEPT !.pc = "exit"]
               ELSE IF pipe.buffer = None THEN [pipe EXCEPT !.pc = "wait"]
               ELSE [pipe EXCEPT !.pc = "flush", !.held = pipe.buffer[1],
                                 !.buffer = None]
    /\ UNCHANGED rss

\* lines 183-184: flush_connections handles the waiting connections one by
\* one and returns when none is left (first is False by then on every
\* iteration, line 176)
PipeFlush ==
    /\ pipe.pc = "flush"
    /\ IF pipe.queue = <<>> THEN pipe' = [pipe EXCEPT !.pc = "held"]
       ELSE \E oks \in Sends(Head(pipe.queue)) : pipe' = Handle(pipe, oks)
    /\ UNCHANGED rss

\* line 185: process_lines on the old buffer file
PipeHeld ==
    /\ pipe.pc = "held"
    /\ \E oks \in Sends(pipe.held) :
           pipe' = [ProcessLines(pipe, pipe.held, oks, TRUE)
                       EXCEPT !.pc = "while", !.held = <<>>]
    /\ UNCHANGED rss

\* lines 192-193: handle_connection waits for a connection, listen_timeout
\* at most
PipeAccept ==
    /\ pipe.pc = "wait"
    /\ IF pipe.queue = <<>> THEN pipe' = [pipe EXCEPT !.pc = "while"]
       ELSE \E oks \in Sends(Head(pipe.queue)) :
                pipe' = [Handle(pipe, oks) EXCEPT !.pc = "while"]
    /\ UNCHANGED rss

\* Pipe.stop up to line 220: running is cleared and a connection without
\* lines wakes the thread
PipeStop ==
    /\ pipe.pc \in {"while", "flush", "held", "wait"}
    /\ pipe.running
    /\ pipe' = [pipe EXCEPT !.running = FALSE, !.queue = Append(@, <<>>)]
    /\ UNCHANGED rss

\* lines 196-203: the socket file is removed, the waiting connections are
\* handled and the socket is closed
PipeExit ==
    /\ pipe.pc = "exit"
    /\ IF pipe.queue = <<>> THEN pipe' = [pipe EXCEPT !.pc = "done"]
       ELSE \E oks \in Sends(Head(pipe.queue)) : pipe' = Handle(pipe, oks)
    /\ UNCHANGED rss

\* the bot is started again: a new Pipe with the same configuration finds
\* the buffer file the old one left
PipeAgain ==
    /\ pipe.pc = "done"
    /\ pipe' = [pipe EXCEPT !.pc = "ready", !.running = TRUE]
    /\ UNCHANGED rss

InitPipe == Setup(<<Section(Some(1), FALSE, None, <<ChanA>>, {})>>, <<None>>)

NextPipe ==
    \/ PipeSetup
    \/ PipeStart
    \/ PipeConnect
    \/ PipeLoop
    \/ PipeFlush
    \/ PipeHeld
    \/ PipeAccept
    \/ PipeStop
    \/ PipeExit
    \/ PipeAgain

SpecPipe == InitPipe /\ [][NextPipe]_vars

-----------------------------------------------------------------------------
(* C25 *)

\* how often x occurs in a sequence
Count(seq, x) == Cardinality({k \in 1..Len(seq) : seq[k] = x})

\* the accepted lines waiting in the buffer file or in the old buffer file
\* that run is reading
Buffered ==
    (IF pipe.buffer = None THEN <<>> ELSE Accepted(pipe, pipe.buffer[1]))
        \o Accepted(pipe, pipe.held)

\* C25: every accepted line that has arrived (non-empty, well formed, its
\* recipient passing the lists; read from a connection or found in the
\* buffer file) has been sent to its recipient or stands in the buffer
\* file, also when its send failed or it arrived after stop.
C25_NoAcceptedLineLost ==
    \A k \in 1..Len(pipe.got) :
        Count(pipe.got, pipe.got[k])
            <= Count(pipe.out, pipe.got[k]) + Count(Buffered, pipe.got[k])

=============================================================================
